---- MODULE Spec2Model ----
(***************************************************************************)
(* Model of engineioxide/src/payload/encoder.rs: the three HTTP long-poll  *)
(* payload encoders (v4_encoder, v3_binary_encoder, v3_string_encoder),    *)
(* the two engine.io v3 per-packet frame encoders, and the packet queue    *)
(* (a tokio mpsc Receiver behind a MutexGuard) they drain.                 *)
(*                                                                         *)
(* Strings are sequences of Unicode scalar values, byte buffers are        *)
(* sequences of 0..255.  A Rust String becomes bytes through Utf8Str.      *)
(***************************************************************************)
EXTENDS Integers, Sequences, FiniteSets, TLC

\* Bound of the model: number of packets the producers push in one behaviour.
MaxPush == 3

\* The poll requests that may run concurrently against the connection.
Pollers == {"p1", "p2"}

Encoders == {"v4", "v3b", "v3s"}

NoOne == "none"

\* crate::payload::PACKET_SEPARATOR_V4 (record separator) and
\* crate::payload::PACKET_SEPARATOR_V3 (':').
PACKET_SEPARATOR_V4 == 30
PACKET_SEPARATOR_V3 == 58

----------------------------------------------------------------------------
(* Sequence helpers *)

\* Concatenation of a sequence of sequences (halving keeps the evaluation shallow).
RECURSIVE Flatten(_)
Flatten(ss) ==
    IF Len(ss) = 0 THEN <<>>
    ELSE IF Len(ss) = 1 THEN ss[1]
    ELSE LET h == Len(ss) \div 2
         IN  Flatten(SubSeq(ss, 1, h)) \o Flatten(SubSeq(ss, h + 1, Len(ss)))

Range(s) == {s[i] : i \in 1..Len(s)}

----------------------------------------------------------------------------
(* Packets and their text conversion (crate::packet) *)

Msg(chars)      == [kind |-> "Message",  body |-> chars, malformed |-> FALSE]
BadMsg(chars)   == [kind |-> "Message",  body |-> chars, malformed |-> TRUE]
Binary(bytes)   == [kind |-> "Binary",   body |-> bytes, malformed |-> FALSE]
BinaryV3(bytes) == [kind |-> "BinaryV3", body |-> bytes, malformed |-> FALSE]
Noop            == [kind |-> "Noop",     body |-> <<>>,  malformed |-> FALSE]

\* Packet::is_binary
is_binary(packet) == packet.kind \in {"Binary", "BinaryV3"}

\* UTF-8 encoding of one Unicode scalar value (the bytes of a Rust char in a String).
Utf8(c) ==
    IF c < 128 THEN <<c>>
    ELSE IF c < 2048 THEN <<192 + (c \div 64), 128 + (c % 64)>>
    ELSE IF c < 65536
         THEN <<224 + (c \div 4096), 128 + ((c \div 64) % 64), 128 + (c % 64)>>
    ELSE <<240 + (c \div 262144), 128 + ((c \div 4096) % 64),
           128 + ((c \div 64) % 64), 128 + (c % 64)>>

\* String::as_bytes / String -> Vec<u8>
Utf8Str(chars) == Flatten([i \in 1..Len(chars) |-> Utf8(chars[i])])

\* Standard base64 alphabet, as ASCII codes.
B64Char(i) ==
    IF i < 26 THEN 65 + i
    ELSE IF i < 52 THEN 97 + (i - 26)
    ELSE IF i < 62 THEN 48 + (i - 52)
    ELSE IF i = 62 THEN 43 ELSE 47

\* base64 with padding ('=' is 61) of a group of one to three bytes.
Base64Group(bytes) ==
    IF Len(bytes) = 1
    THEN <<B64Char(bytes[1] \div 4), B64Char((bytes[1] % 4) * 16), 61, 61>>
    ELSE IF Len(bytes) = 2
         THEN <<B64Char(bytes[1] \div 4),
                B64Char((bytes[1] % 4) * 16 + (bytes[2] \div 16)),
                B64Char((bytes[2] % 16) * 4), 61>>
    ELSE <<B64Char(bytes[1] \div 4),
           B64Char((bytes[1] % 4) * 16 + (bytes[2] \div 16)),
           B64Char((bytes[2] % 16) * 4 + (bytes[3] \div 64)),
           B64Char(bytes[3] % 64)>>

\* base64 with padding of a byte sequence, three bytes at a time.
Base64(bytes) ==
    Flatten([k \in 1..((Len(bytes) + 2) \div 3) |->
               Base64Group(SubSeq(bytes, 3 * k - 2,
                                  IF 3 * k < Len(bytes) THEN 3 * k ELSE Len(bytes)))])

\* TryInto<String> for Packet: the packet type character followed by the
\* payload; binary payloads are base64 text behind "b" / "b4".  The conversion
\* of a malformed packet fails.
try_into_String(packet) ==
    IF packet.malformed THEN [ok |-> FALSE, text |-> <<>>]
    ELSE [ok |-> TRUE,
          text |-> CASE packet.kind = "Message"  -> <<52>> \o packet.body
                     [] packet.kind = "Binary"   -> <<98>> \o Base64(packet.body)
                     [] packet.kind = "BinaryV3" -> <<98, 52>> \o Base64(packet.body)
                     [] packet.kind = "Noop"     -> <<54>>]

\* The packets the producers push: a message with a two-byte character, a
\* message holding the v4 separator character, both binary variants, and a
\* packet whose text conversion fails.
PacketSet ==
    { Msg(<<233>>), Msg(<<30>>), Binary(<<1, 2>>), BinaryV3(<<1, 2>>), BadMsg(<<>>) }

----------------------------------------------------------------------------
(* The per-packet engine.io v3 frame encoders *)

\* Width in bytes of usize (a 64-bit target), the type of len.
UsizeBytes == 8

RECURSIVE BitLen(_)
BitLen(n) == IF n = 0 THEN 0 ELSE 1 + BitLen(n \div 2)

\* usize::leading_zeros
leading_zeros(len) == 8 * UsizeBytes - BitLen(len)

RECURSIVE ShiftRightBytes(_, _)
ShiftRightBytes(n, k) == IF k = 0 THEN n ELSE ShiftRightBytes(n \div 256, k - 1)

\* usize::to_be_bytes
to_be_bytes(len) == [i \in 1..UsizeBytes |-> ShiftRightBytes(len, UsizeBytes - i) % 256]

\* Variant of length_field: the length is written at its full width.
length_field_padded(len) == to_be_bytes(len)

\* &len.to_be_bytes()[leading_zero_bytes as usize..]
length_field(len) ==
    LET leading_zero_bytes == leading_zeros(len) \div 8
    IN  SubSeq(to_be_bytes(len), leading_zero_bytes + 1, UsizeBytes)

\* v3_bin_packet_encoder(packet, &mut data): the result and the buffer after it.
v3_bin_packet_encoder(packet, data) ==
    IF packet.kind = "BinaryV3"
    THEN LET bin == packet.body
             len == Len(bin) + 1
         IN  [ok |-> TRUE,
              data |-> data \o <<1>> \o length_field(len) \o <<255>> \o <<4>> \o bin]
    ELSE LET r == try_into_String(packet)
         IN  IF ~r.ok THEN [ok |-> FALSE, data |-> data]
             ELSE LET bytes == Utf8Str(r.text)
                      len == Len(bytes)
                  IN  [ok |-> TRUE,
                       data |-> data \o <<0>> \o length_field(len) \o <<255>> \o bytes]

\* Decimal digits of a natural number, as ASCII codes (format!("{}", n)).
RECURSIVE Decimal(_)
Decimal(n) == IF n < 10 THEN <<48 + n>> ELSE Decimal(n \div 10) \o <<48 + (n % 10)>>

\* Variant of chars_count: the byte length of the text (packet.len()).
chars_count_bytes(text) == Len(Utf8Str(text))

\* packet.chars().count()
chars_count(text) == Len(text)

\* v3_string_packet_encoder(packet, &mut data)
v3_string_packet_encoder(packet, data) ==
    LET r == try_into_String(packet)
    IN  IF ~r.ok THEN [ok |-> FALSE, data |-> data]
        ELSE LET framed == Decimal(chars_count(r.text)) \o <<PACKET_SEPARATOR_V3>> \o r.text
             IN  [ok |-> TRUE, data |-> data \o Utf8Str(framed)]

\* Variant of for_packet_in: the frame style is chosen packet by packet.
RECURSIVE for_packet_in_per_packet(_, _, _)
for_packet_in_per_packet(packets, use_bin, data) ==
    IF packets = <<>> THEN [ok |-> TRUE, data |-> data]
    ELSE LET r == IF is_binary(Head(packets))
                  THEN v3_bin_packet_encoder(Head(packets), data)
                  ELSE v3_string_packet_encoder(Head(packets), data)
         IN  IF ~r.ok THEN r ELSE for_packet_in_per_packet(Tail(packets), use_bin, r.data)

\* for packet in packet_buffer { encoder(packet, &mut data)? }
RECURSIVE for_packet_in(_, _, _)
for_packet_in(packets, use_bin, data) ==
    IF packets = <<>> THEN [ok |-> TRUE, data |-> data]
    ELSE LET r == IF use_bin THEN v3_bin_packet_encoder(Head(packets), data)
                  ELSE v3_string_packet_encoder(Head(packets), data)
         IN  IF ~r.ok THEN r ELSE for_packet_in(Tail(packets), use_bin, r.data)

----------------------------------------------------------------------------
(* State *)

VARIABLES
    queue,          \* the mpsc channel buffer: entries [id, packet], oldest first
    closed,         \* every Sender has been dropped
    lock,           \* the poller holding the MutexGuard over the Receiver, or NoOne
    pc,             \* per poller: "idle", "drain" (try_recv loop), "wait" (recv().await)
    enc,            \* per poller: the encoder of its current call
    data,           \* per poller: the local `data` (chars in v4_encoder, bytes in v3)
    packet_buffer,  \* per poller: the local `packet_buffer` of v3_binary_encoder
    has_binary,     \* per poller: the local `has_binary` of v3_binary_encoder
    returned,       \* what the step just taken returned to a caller, if it ended a call
    batch,          \* history: the queue entries popped by the poller's current call
    pushed,         \* history: every packet pushed, in push order (index = id)
    delivered,      \* history: the entries of all calls that returned Ok, in return order
    dropped         \* history: ids of entries popped by calls that did not return Ok

vars == <<queue, closed, lock, pc, enc, data, packet_buffer, has_binary,
          returned, batch, pushed, delivered, dropped>>

\* tag: "Ok", "ConvErr" (the conversion error), "Aborted" (Error::Aborted),
\* "Cancelled" (future dropped); payload: the bytes of Ok; popped: the queue
\* entries the call took; waited: the call reached rx.recv().await.
NoReturn ==
    [by |-> NoOne, tag |-> "none", payload |-> <<>>, enc |-> "none",
     popped |-> <<>>, waited |-> FALSE]

Packets(entries) == [i \in 1..Len(entries) |-> entries[i].packet]
Ids(entries) == {entries[i].id : i \in 1..Len(entries)}

Init ==
    /\ queue = <<>>
    /\ closed = FALSE
    /\ lock = NoOne
    /\ pc = [p \in Pollers |-> "idle"]
    /\ enc = [p \in Pollers |-> "none"]
    /\ data = [p \in Pollers |-> <<>>]
    /\ packet_buffer = [p \in Pollers |-> <<>>]
    /\ has_binary = [p \in Pollers |-> FALSE]
    /\ returned = NoReturn
    /\ batch = [p \in Pollers |-> <<>>]
    /\ pushed = <<>>
    /\ delivered = <<>>
    /\ dropped = {}

----------------------------------------------------------------------------
(* The queue *)

\* Sender::send: appends at the back of the channel.
Push(packet) ==
    /\ ~closed
    /\ Len(pushed) < MaxPush
    /\ queue' = Append(queue, [id |-> Len(pushed) + 1, packet |-> packet])
    /\ pushed' = Append(pushed, packet)
    /\ returned' = NoReturn
    /\ UNCHANGED <<closed, lock, pc, enc, data, packet_buffer, has_binary, batch,
                   delivered, dropped>>

\* The last Sender is dropped (the session ends): buffered packets stay receivable.
Close ==
    /\ ~closed
    /\ closed' = TRUE
    /\ returned' = NoReturn
    /\ UNCHANGED <<queue, lock, pc, enc, data, packet_buffer, has_binary, batch,
                   pushed, delivered, dropped>>

\* Variant of is_empty: the emptiness test of the buffer is lost.
is_empty_never(d) == FALSE

\* Variant of is_empty: the buffer is always taken for empty.
is_empty_always(d) == TRUE

\* String::is_empty / Vec::is_empty
is_empty(d) == d = <<>>

\* Variant of recv_front: the channel hands out its newest entry.
recv_back(q) == [entry |-> q[Len(q)], rest |-> SubSeq(q, 1, Len(q) - 1)]

\* Receiver::try_recv / a ready Receiver::recv: the oldest entry and the rest.
recv_front(q) == [entry |-> Head(q), rest |-> Tail(q)]

\* Variant of GuardAvailable: the receiver is handed out without the mutex.
GuardAlways == TRUE

\* The MutexGuard `rx` can be handed to a call only while nobody holds it.
GuardAvailable == lock = NoOne

\* The guard `rx` is dropped when the call returns or its future is dropped.
ReleasedGuard == NoOne

\* A poll request obtains the guard and calls one of the encoders with it.
Call(p, e) ==
    /\ pc[p] = "idle"
    /\ GuardAvailable
    /\ lock' = p
    /\ pc' = [pc EXCEPT ![p] = "drain"]
    /\ enc' = [enc EXCEPT ![p] = e]
    /\ data' = [data EXCEPT ![p] = <<>>]
    /\ packet_buffer' = [packet_buffer EXCEPT ![p] = <<>>]
    /\ has_binary' = [has_binary EXCEPT ![p] = FALSE]
    /\ returned' = NoReturn
    /\ batch' = [batch EXCEPT ![p] = <<>>]
    /\ UNCHANGED <<queue, closed, pushed, delivered, dropped>>

\* The call of p ends (Ok, an error, or its future dropped): locals and guard go away.
\* `popped` is every entry the call took from the queue.
Return(p, tag, payload, popped, waited) ==
    /\ pc' = [pc EXCEPT ![p] = "idle"]
    /\ enc' = [enc EXCEPT ![p] = "none"]
    /\ lock' = ReleasedGuard
    /\ data' = [data EXCEPT ![p] = <<>>]
    /\ packet_buffer' = [packet_buffer EXCEPT ![p] = <<>>]
    /\ has_binary' = [has_binary EXCEPT ![p] = FALSE]
    /\ batch' = [batch EXCEPT ![p] = <<>>]
    /\ returned' = [by |-> p, tag |-> tag, payload |-> payload, enc |-> enc[p],
                     popped |-> popped, waited |-> waited]
    /\ delivered' = IF tag = "Ok" THEN delivered \o popped ELSE delivered
    /\ dropped' = IF tag = "Ok" THEN dropped ELSE dropped \cup Ids(popped)

----------------------------------------------------------------------------
(* v4_encoder *)

\* Variant of push_separator: the separator is pushed before every packet.
push_separator_always(d) == Append(d, PACKET_SEPARATOR_V4)

\* if !data.is_empty() { data.push(PACKET_SEPARATOR_V4 as char) }
push_separator(d) == IF ~is_empty(d) THEN Append(d, PACKET_SEPARATOR_V4) ELSE d

\* while let Ok(packet) = rx.try_recv() { ... }: one iteration.
v4_try_recv(p) ==
    /\ pc[p] = "drain" /\ enc[p] = "v4"
    /\ queue # <<>>
    /\ LET got == recv_front(queue)
           popped == Append(batch[p], got.entry)
           r == try_into_String(got.entry.packet)
       IN  /\ queue' = got.rest
           /\ IF ~r.ok
              THEN Return(p, "ConvErr", <<>>, popped, FALSE)
              ELSE /\ data' = [data EXCEPT ![p] = push_separator(@) \o r.text]
                   /\ batch' = [batch EXCEPT ![p] = popped]
                   /\ returned' = NoReturn
                   /\ UNCHANGED <<lock, enc, pc, packet_buffer, has_binary, delivered, dropped>>
    /\ UNCHANGED <<closed, pushed>>

\* try_recv reports the channel empty (or disconnected): the loop ends, then
\* `if data.is_empty()` either starts the blocking wait or the call returns.
v4_drain_end(p) ==
    /\ pc[p] = "drain" /\ enc[p] = "v4"
    /\ queue = <<>>
    /\ IF is_empty(data[p])
       THEN /\ pc' = [pc EXCEPT ![p] = "wait"]
            /\ returned' = NoReturn
            /\ UNCHANGED <<lock, enc, data, packet_buffer, has_binary, batch, delivered, dropped>>
       ELSE Return(p, "Ok", Utf8Str(data[p]), batch[p], FALSE)
    /\ UNCHANGED <<queue, closed, pushed>>

\* Variant of v4_recv: a closed channel yields None even while it still holds
\* packets.
v4_recv_closed_first(p) ==
    /\ pc[p] = "wait" /\ enc[p] = "v4"
    /\ IF closed
       THEN /\ queue' = queue
            /\ Return(p, "Aborted", <<>>, batch[p], TRUE)
       ELSE /\ queue # <<>>
            /\ LET got == recv_front(queue)
                   popped == Append(batch[p], got.entry)
                   r == try_into_String(got.entry.packet)
               IN  /\ queue' = got.rest
                   /\ IF ~r.ok
                      THEN Return(p, "ConvErr", <<>>, popped, TRUE)
                      ELSE Return(p, "Ok", Utf8Str(data[p] \o r.text), popped, TRUE)
    /\ UNCHANGED <<closed, pushed>>

\* Variant of v4_recv: None from the closed channel is taken for an empty batch.
v4_recv_unwrap_or_default(p) ==
    /\ pc[p] = "wait" /\ enc[p] = "v4"
    /\ IF queue # <<>>
       THEN LET got == recv_front(queue)
                popped == Append(batch[p], got.entry)
                r == try_into_String(got.entry.packet)
            IN  /\ queue' = got.rest
                /\ IF ~r.ok
                   THEN Return(p, "ConvErr", <<>>, popped, TRUE)
                   ELSE Return(p, "Ok", Utf8Str(data[p] \o r.text), popped, TRUE)
       ELSE /\ closed
            /\ queue' = queue
            /\ Return(p, "Ok", <<>>, batch[p], TRUE)
    /\ UNCHANGED <<closed, pushed>>

\* rx.recv().await completes: with the oldest packet, or with None once the
\* channel is closed and empty.
v4_recv(p) ==
    /\ pc[p] = "wait" /\ enc[p] = "v4"
    /\ IF queue # <<>>
       THEN LET got == recv_front(queue)
                popped == Append(batch[p], got.entry)
                r == try_into_String(got.entry.packet)
            IN  /\ queue' = got.rest
                /\ IF ~r.ok
                   THEN Return(p, "ConvErr", <<>>, popped, TRUE)
                   ELSE Return(p, "Ok", Utf8Str(data[p] \o r.text), popped, TRUE)
       ELSE /\ closed
            /\ queue' = queue
            /\ Return(p, "Aborted", <<>>, batch[p], TRUE)
    /\ UNCHANGED <<closed, pushed>>

----------------------------------------------------------------------------
(* v3_binary_encoder *)

\* while let Ok(packet) = rx.try_recv() { ... packet_buffer.push(packet) }
v3b_try_recv(p) ==
    /\ pc[p] = "drain" /\ enc[p] = "v3b"
    /\ queue # <<>>
    /\ LET got == recv_front(queue)
       IN  /\ queue' = got.rest
           /\ has_binary' = [has_binary EXCEPT ![p] = @ \/ is_binary(got.entry.packet)]
           /\ packet_buffer' = [packet_buffer EXCEPT ![p] = Append(@, got.entry.packet)]
           /\ batch' = [batch EXCEPT ![p] = Append(@, got.entry)]
    /\ returned' = NoReturn
    /\ UNCHANGED <<closed, lock, pc, enc, data, pushed, delivered, dropped>>

\* The loop ends; the buffered packets are encoded with one frame style, then
\* `if data.is_empty()` either starts the blocking wait or the call returns.
v3b_drain_end(p) ==
    /\ pc[p] = "drain" /\ enc[p] = "v3b"
    /\ queue = <<>>
    /\ LET r == for_packet_in(packet_buffer[p], has_binary[p], data[p])
       IN  IF ~r.ok
           THEN Return(p, "ConvErr", <<>>, batch[p], FALSE)
           ELSE IF is_empty(r.data)
           THEN /\ pc' = [pc EXCEPT ![p] = "wait"]
                /\ data' = [data EXCEPT ![p] = r.data]
                /\ packet_buffer' = [packet_buffer EXCEPT ![p] = <<>>]
                /\ returned' = NoReturn
                /\ UNCHANGED <<lock, enc, has_binary, batch, delivered, dropped>>
           ELSE Return(p, "Ok", r.data, batch[p], FALSE)
    /\ UNCHANGED <<queue, closed, pushed>>

\* Variant of v3b_recv: on None from the closed channel the call goes round
\* the drain loop again instead of returning.
v3b_recv_retry_on_close(p) ==
    /\ pc[p] = "wait" /\ enc[p] = "v3b"
    /\ IF queue # <<>>
       THEN LET got == recv_front(queue)
                packet == got.entry.packet
                popped == Append(batch[p], got.entry)
                r == IF packet.kind \in {"BinaryV3", "Binary"}
                     THEN v3_bin_packet_encoder(packet, data[p])
                     ELSE v3_string_packet_encoder(packet, data[p])
            IN  /\ queue' = got.rest
                /\ IF ~r.ok
                   THEN Return(p, "ConvErr", <<>>, popped, TRUE)
                   ELSE Return(p, "Ok", r.data, popped, TRUE)
       ELSE /\ closed
            /\ queue' = queue
            /\ pc' = [pc EXCEPT ![p] = "drain"]
            /\ returned' = NoReturn
            /\ UNCHANGED <<lock, enc, data, packet_buffer, has_binary, batch,
                           delivered, dropped>>
    /\ UNCHANGED <<closed, pushed>>

\* Variant of v3b_recv: the woken call takes everything the queue holds.
v3b_recv_takes_all(p) ==
    /\ pc[p] = "wait" /\ enc[p] = "v3b"
    /\ IF queue # <<>>
       THEN LET packets == Packets(queue)
                r == for_packet_in(packets,
                                   \E i \in 1..Len(packets) : is_binary(packets[i]),
                                   data[p])
            IN  /\ queue' = <<>>
                /\ IF ~r.ok
                   THEN Return(p, "ConvErr", <<>>, queue, TRUE)
                   ELSE Return(p, "Ok", r.data, queue, TRUE)
       ELSE /\ closed
            /\ queue' = queue
            /\ Return(p, "Aborted", <<>>, batch[p], TRUE)
    /\ UNCHANGED <<closed, pushed>>

\* Variant of v3b_recv: the match on the blocking path names BinaryV3 only.
v3b_recv_v3_only(p) ==
    /\ pc[p] = "wait" /\ enc[p] = "v3b"
    /\ IF queue # <<>>
       THEN LET got == recv_front(queue)
                packet == got.entry.packet
                popped == Append(batch[p], got.entry)
                r == IF packet.kind \in {"BinaryV3"}
                     THEN v3_bin_packet_encoder(packet, data[p])
                     ELSE v3_string_packet_encoder(packet, data[p])
            IN  /\ queue' = got.rest
                /\ IF ~r.ok
                   THEN Return(p, "ConvErr", <<>>, popped, TRUE)
                   ELSE Return(p, "Ok", r.data, popped, TRUE)
       ELSE /\ closed
            /\ queue' = queue
            /\ Return(p, "Aborted", <<>>, batch[p], TRUE)
    /\ UNCHANGED <<closed, pushed>>

\* rx.recv().await completes; the frame style follows the packet's variant.
v3b_recv(p) ==
    /\ pc[p] = "wait" /\ enc[p] = "v3b"
    /\ IF queue # <<>>
       THEN LET got == recv_front(queue)
                packet == got.entry.packet
                popped == Append(batch[p], got.entry)
                r == IF packet.kind \in {"BinaryV3", "Binary"}
                     THEN v3_bin_packet_encoder(packet, data[p])
                     ELSE v3_string_packet_encoder(packet, data[p])
            IN  /\ queue' = got.rest
                /\ IF ~r.ok
                   THEN Return(p, "ConvErr", <<>>, popped, TRUE)
                   ELSE Return(p, "Ok", r.data, popped, TRUE)
       ELSE /\ closed
            /\ queue' = queue
            /\ Return(p, "Aborted", <<>>, batch[p], TRUE)
    /\ UNCHANGED <<closed, pushed>>

----------------------------------------------------------------------------
(* v3_string_encoder *)

\* Variant of v3s_try_recv: binary packets get a binary frame, as on the
\* blocking path of v3_binary_encoder.
v3s_try_recv_bin_for_binary(p) ==
    /\ pc[p] = "drain" /\ enc[p] = "v3s"
    /\ queue # <<>>
    /\ LET got == recv_front(queue)
           popped == Append(batch[p], got.entry)
           r == IF is_binary(got.entry.packet)
                THEN v3_bin_packet_encoder(got.entry.packet, data[p])
                ELSE v3_string_packet_encoder(got.entry.packet, data[p])
       IN  /\ queue' = got.rest
           /\ IF ~r.ok
              THEN Return(p, "ConvErr", <<>>, popped, FALSE)
              ELSE /\ data' = [data EXCEPT ![p] = r.data]
                   /\ batch' = [batch EXCEPT ![p] = popped]
                   /\ returned' = NoReturn
                   /\ UNCHANGED <<lock, enc, pc, packet_buffer, has_binary, delivered, dropped>>
    /\ UNCHANGED <<closed, pushed>>

\* Variant of v3s_try_recv: the queue is drained into a buffer before any
\* packet is converted, so a failure discards the packets behind it too.
v3s_try_recv_buffered(p) ==
    /\ pc[p] = "drain" /\ enc[p] = "v3s"
    /\ queue # <<>>
    /\ LET popped == batch[p] \o queue
           r == for_packet_in(Packets(queue), FALSE, data[p])
       IN  /\ queue' = <<>>
           /\ IF ~r.ok
              THEN Return(p, "ConvErr", <<>>, popped, FALSE)
              ELSE /\ data' = [data EXCEPT ![p] = r.data]
                   /\ batch' = [batch EXCEPT ![p] = popped]
                   /\ returned' = NoReturn
                   /\ UNCHANGED <<lock, enc, pc, packet_buffer, has_binary,
                                  delivered, dropped>>
    /\ UNCHANGED <<closed, pushed>>

\* while let Ok(packet) = rx.try_recv() { v3_string_packet_encoder(packet, &mut data)?; }
v3s_try_recv(p) ==
    /\ pc[p] = "drain" /\ enc[p] = "v3s"
    /\ queue # <<>>
    /\ LET got == recv_front(queue)
           popped == Append(batch[p], got.entry)
           r == v3_string_packet_encoder(got.entry.packet, data[p])
       IN  /\ queue' = got.rest
           /\ IF ~r.ok
              THEN Return(p, "ConvErr", <<>>, popped, FALSE)
              ELSE /\ data' = [data EXCEPT ![p] = r.data]
                   /\ batch' = [batch EXCEPT ![p] = popped]
                   /\ returned' = NoReturn
                   /\ UNCHANGED <<lock, enc, pc, packet_buffer, has_binary, delivered, dropped>>
    /\ UNCHANGED <<closed, pushed>>

v3s_drain_end(p) ==
    /\ pc[p] = "drain" /\ enc[p] = "v3s"
    /\ queue = <<>>
    /\ IF is_empty(data[p])
       THEN /\ pc' = [pc EXCEPT ![p] = "wait"]
            /\ returned' = NoReturn
            /\ UNCHANGED <<lock, enc, data, packet_buffer, has_binary, batch, delivered, dropped>>
       ELSE Return(p, "Ok", data[p], batch[p], FALSE)
    /\ UNCHANGED <<queue, closed, pushed>>

\* Variant of v3s_recv: a packet that was pushed before the wait began is
\* discarded by the wait, which goes on waiting for the next one.
v3s_recv_misses_pending(p) ==
    /\ pc[p] = "wait" /\ enc[p] = "v3s"
    /\ IF queue # <<>>
       THEN /\ queue' = recv_front(queue).rest
            /\ dropped' = dropped \cup {recv_front(queue).entry.id}
            /\ returned' = NoReturn
            /\ UNCHANGED <<lock, pc, enc, data, packet_buffer, has_binary, batch,
                           delivered>>
       ELSE /\ closed
            /\ queue' = queue
            /\ Return(p, "Aborted", <<>>, batch[p], TRUE)
    /\ UNCHANGED <<closed, pushed>>

\* rx.recv().await completes: with the oldest packet, or with None once the
\* channel is closed and empty.
v3s_recv(p) ==
    /\ pc[p] = "wait" /\ enc[p] = "v3s"
    /\ IF queue # <<>>
       THEN LET got == recv_front(queue)
                popped == Append(batch[p], got.entry)
                r == v3_string_packet_encoder(got.entry.packet, data[p])
            IN  /\ queue' = got.rest
                /\ IF ~r.ok
                   THEN Return(p, "ConvErr", <<>>, popped, TRUE)
                   ELSE Return(p, "Ok", r.data, popped, TRUE)
       ELSE /\ closed
            /\ queue' = queue
            /\ Return(p, "Aborted", <<>>, batch[p], TRUE)
    /\ UNCHANGED <<closed, pushed>>

----------------------------------------------------------------------------
(* Cancellation *)

\* Variant of Cancel: a receive that is not cancel-safe, the dropped future
\* takes the packet that woke it.
CancelTaking(p) ==
    /\ pc[p] = "wait"
    /\ queue # <<>>
    /\ queue' = Tail(queue)
    /\ Return(p, "Cancelled", <<>>, batch[p], TRUE)
    /\ UNCHANGED <<closed, pushed>>

\* The poll request is cancelled or times out: the future of the call is
\* dropped at its only suspension point, rx.recv().await.
Cancel(p) ==
    /\ pc[p] = "wait"
    /\ Return(p, "Cancelled", <<>>, batch[p], TRUE)
    /\ UNCHANGED <<queue, closed, pushed>>

----------------------------------------------------------------------------

Next ==
    \/ \E packet \in PacketSet : Push(packet)
    \/ Close
    \/ \E p \in Pollers, e \in Encoders : Call(p, e)
    \/ \E p \in Pollers : v4_try_recv(p)
    \/ \E p \in Pollers : v4_drain_end(p)
    \/ \E p \in Pollers : v4_recv(p)
    \/ \E p \in Pollers : v3b_try_recv(p)
    \/ \E p \in Pollers : v3b_drain_end(p)
    \/ \E p \in Pollers : v3b_recv(p)
    \/ \E p \in Pollers : v3s_try_recv(p)
    \/ \E p \in Pollers : v3s_drain_end(p)
    \/ \E p \in Pollers : v3s_recv(p)
    \/ \E p \in Pollers : Cancel(p)

Spec == Init /\ [][Next]_vars

----------------------------------------------------------------------------
(* Properties *)

\* The entries of the call that holds the guard.
InFlight == IF lock \in Pollers THEN batch[lock] ELSE <<>>

\* Every pushed packet is in exactly one place, and the packets that were not
\* discarded by a failed call appear, in push order, as: the batches returned
\* so far, then the batch being built, then the queue.
EnqueueOrderKept ==
    LET all == delivered \o InFlight \o queue
    IN  /\ \A i \in 1..Len(all) :
              /\ all[i].id \in 1..Len(pushed)
              /\ all[i].packet = pushed[all[i].id]
        /\ \A i \in 1..(Len(all) - 1) : all[i].id < all[i + 1].id
        /\ Ids(all) \cup dropped = 1..Len(pushed)
        /\ Ids(all) \cap dropped = {}

\* C1: for any interleaving of pushes and encode calls, the packets of the
\* successful calls, concatenated in call order, are the packets pushed so far
\* minus those still in the queue (or in the batch being built), in enqueue
\* order: none lost, duplicated, reordered or moved between batches.  While no
\* call has failed (dropped = {}) that concatenation is exactly `pushed`.
C1_StrictEnqueueOrder ==
    /\ EnqueueOrderKept
    /\ dropped = {} => Packets(delivered \o InFlight \o queue) = pushed

\* Two successful calls have returned batches and a packet is still queued.
C1_Witness ==
    /\ returned.tag = "Ok"
    /\ Len(returned.popped) < Len(delivered)
    /\ Len(delivered) >= 2
    /\ queue # <<>>
    /\ dropped = {}

\* C2: every call that returns Ok returns a non-empty payload that encodes at
\* least one packet.
C2_NeverEmptyPayload ==
    returned.tag = "Ok" => (returned.payload # <<>> /\ Len(returned.popped) >= 1)

\* A call that found the queue empty and waited has returned Ok.
C2_Witness == returned.tag = "Ok" /\ returned.waited /\ returned.payload # <<>>

\* The pollers inside an encode call.
Active == {p \in Pollers : pc[p] # "idle"}

\* C3: at most one encode call drains or waits on the queue at a time, the
\* guard is held by that call from its start to its return, and no packet is
\* taken by two calls.
C3_ExclusiveAccess ==
    /\ Cardinality(Active) <= 1
    /\ \A p \in Pollers : (pc[p] # "idle") <=> (lock = p)
    /\ \A p \in Pollers : pc[p] = "idle" => batch[p] = <<>>
    /\ \A i, j \in 1..Len(delivered) : i # j => delivered[i].id # delivered[j].id
    /\ \A p \in Pollers : Ids(batch[p]) \cap (Ids(delivered) \cup dropped) = {}

\* One poller is draining packets after another call has already returned some.
C3_Witness ==
    /\ pc["p2"] = "drain" /\ batch["p2"] # <<>>
    /\ delivered # <<>>
    /\ pc["p1"] = "idle"

\* C4: a call that is blocked on the empty queue when the queue is closed, or
\* that is made on a queue closed with nothing ever pushed, fails with
\* Error::Aborted and returns no payload (unless its future is dropped first).
C4_AbortedOnClose ==
    [][\A p \in Pollers :
         /\ (pc[p] = "wait" /\ closed /\ queue = <<>> /\ pc'[p] # "wait"
             /\ returned'.tag # "Cancelled")
            => (returned'.by = p /\ returned'.tag = "Aborted" /\ returned'.payload = <<>>)
         /\ (pc[p] = "drain" /\ closed /\ pushed = <<>>) => pc'[p] \in {"drain", "wait"}
      ]_vars

\* A call made on a queue closed before any push has failed with Aborted.
C4_Witness == returned.tag = "Aborted" /\ closed /\ pushed = <<>>

\* C5: cancelling a call suspended in the blocking wait removes nothing from
\* the queue (the call had popped nothing) and frees the guard, and packets
\* are still neither lost nor duplicated nor reordered afterwards.
C5_CancelSafe ==
    /\ [][returned'.tag = "Cancelled"
            => /\ queue' = queue
               /\ returned'.popped = <<>>
               /\ delivered' = delivered /\ dropped' = dropped
               /\ lock' = NoOne]_vars
    /\ []EnqueueOrderKept

\* A call was cancelled while a packet pushed during its wait sits in the queue.
C5_Witness == returned.tag = "Cancelled" /\ queue # <<>>

----------------------------------------------------------------------------
(* Conversion failures *)

Min(S) == CHOOSE x \in S : \A y \in S : x <= y

\* Position in `entries` of the first packet whose text conversion fails (0: none).
FirstFailing(entries) ==
    LET bad == {i \in 1..Len(entries) : ~try_into_String(entries[i].packet).ok}
    IN  IF bad = {} THEN 0 ELSE Min(bad)

\* After a conversion error: the call popped nothing behind the failing packet,
\* and exactly the packets pushed after it are in the queue, oldest first.
BehindFailingStillQueued ==
    LET f == FirstFailing(returned.popped)
    IN  /\ f = Len(returned.popped)
        /\ f > 0
        /\ returned.payload = <<>>
        /\ Ids(queue) = (returned.popped[f].id + 1)..Len(pushed)
        /\ \A i \in 1..(Len(queue) - 1) : queue[i].id < queue[i + 1].id

\* C6 as stated: in all three encoders a failed conversion returns an error
\* with no payload and leaves every packet queued behind the failing packet in
\* the queue, in order.
C6_AsStated ==
    returned.tag = "ConvErr" => BehindFailingStillQueued

\* C6 as amended: that holds for v4_encoder, for v3_string_encoder and for the
\* blocking path of v3_binary_encoder; a failure in the drain path of
\* v3_binary_encoder comes after the whole batch was taken from the queue, and
\* the packets behind the failing one are discarded with it (the queue keeps
\* only packets pushed after the drain).
C6_RemainingPacketsIntact ==
    returned.tag = "ConvErr" =>
        IF returned.enc \in {"v4", "v3s"} \/ returned.waited
        THEN BehindFailingStillQueued
        ELSE /\ returned.enc = "v3b"
             /\ returned.payload = <<>>
             /\ FirstFailing(returned.popped) > 0
             /\ Ids(returned.popped) \subseteq dropped
             /\ Ids(queue) =
                  (returned.popped[Len(returned.popped)].id + 1)..Len(pushed)

\* v4_encoder or v3_string_encoder failed on a packet with another one behind it.
C6_Witness ==
    /\ returned.tag = "ConvErr"
    /\ returned.enc \in {"v4", "v3s"}
    /\ ~returned.waited
    /\ queue # <<>>

----------------------------------------------------------------------------
(* Decoders of the payload formats, as a client reads them *)

\* The segments of `bytes` between occurrences of `sep`.
RECURSIVE Split(_, _)
Split(bytes, sep) ==
    LET at == {i \in 1..Len(bytes) : bytes[i] = sep}
    IN  IF at = {} THEN <<bytes>>
        ELSE <<SubSeq(bytes, 1, Min(at) - 1)>>
             \o Split(SubSeq(bytes, Min(at) + 1, Len(bytes)), sep)

\* The UTF-8 bytes of the text of each packet.
TextBytes(packets) ==
    [i \in 1..Len(packets) |-> Utf8Str(try_into_String(packets[i]).text)]

RECURSIVE BigEndianValue(_)
BigEndianValue(bytes) ==
    IF bytes = <<>> THEN 0
    ELSE 256 * BigEndianValue(SubSeq(bytes, 1, Len(bytes) - 1)) + bytes[Len(bytes)]

NoFrames == [ok |-> FALSE, frames |-> <<>>]

\* A payload read as v3 binary frames: type byte, length up to the first 0xFF,
\* then that many bytes.
RECURSIVE ParseBinFrames(_)
ParseBinFrames(b) ==
    IF b = <<>> THEN [ok |-> TRUE, frames |-> <<>>]
    ELSE IF b[1] \notin {0, 1} THEN NoFrames
    ELSE LET seps == {j \in 2..Len(b) : b[j] = 255}
         IN  IF seps = {} THEN NoFrames
             ELSE LET j == Min(seps)
                      len == BigEndianValue(SubSeq(b, 2, j - 1))
                  IN  IF j = 2 \/ j + len > Len(b) THEN NoFrames
                      ELSE LET rest == ParseBinFrames(SubSeq(b, j + len + 1, Len(b)))
                           IN  IF ~rest.ok THEN NoFrames
                               ELSE [ok |-> TRUE,
                                     frames |-> <<[type |-> b[1],
                                                   bytes |-> SubSeq(b, j + 1, j + len)]>>
                                                \o rest.frames]

\* Number of bytes of the UTF-8 sequence that starts with byte b.
Utf8Width(b) == IF b < 128 THEN 1 ELSE IF b < 224 THEN 2 ELSE IF b < 240 THEN 3 ELSE 4

\* The scalar values of well-formed UTF-8 bytes.  A long input is cut at a
\* character boundary near its middle (keeps the evaluation shallow).
RECURSIVE Utf8Decode(_)
Utf8Decode(b) ==
    IF b = <<>> THEN <<>>
    ELSE IF Len(b) > 8
    THEN LET h == Len(b) \div 2
             cut == Min({i \in h..(h + 3) : b[i + 1] \notin 128..191})
         IN  Utf8Decode(SubSeq(b, 1, cut)) \o Utf8Decode(SubSeq(b, cut + 1, Len(b)))
    ELSE LET w == Utf8Width(b[1])
             c == IF w = 1 THEN b[1]
                  ELSE IF w = 2 THEN (b[1] - 192) * 64 + (b[2] - 128)
                  ELSE IF w = 3
                       THEN (b[1] - 224) * 4096 + (b[2] - 128) * 64 + (b[3] - 128)
                  ELSE (b[1] - 240) * 262144 + (b[2] - 128) * 4096
                       + (b[3] - 128) * 64 + (b[4] - 128)
         IN  <<c>> \o Utf8Decode(SubSeq(b, w + 1, Len(b)))

RECURSIVE DecimalValue(_)
DecimalValue(digits) ==
    IF digits = <<>> THEN 0
    ELSE 10 * DecimalValue(SubSeq(digits, 1, Len(digits) - 1))
         + (digits[Len(digits)] - 48)

\* Text read as v3 string frames: decimal count, the delimiter, then that many
\* characters.
RECURSIVE ParseStringFrames(_)
ParseStringFrames(c) ==
    IF c = <<>> THEN [ok |-> TRUE, frames |-> <<>>]
    ELSE LET seps == {j \in 1..Len(c) : c[j] = PACKET_SEPARATOR_V3}
         IN  IF seps = {} THEN NoFrames
             ELSE LET j == Min(seps)
                      digits == SubSeq(c, 1, j - 1)
                      n == DecimalValue(digits)
                  IN  IF j = 1 \/ (\E i \in 1..(j - 1) : c[i] \notin 48..57)
                         \/ j + n > Len(c)
                      THEN NoFrames
                      ELSE LET rest == ParseStringFrames(SubSeq(c, j + n + 1, Len(c)))
                           IN  IF ~rest.ok THEN NoFrames
                               ELSE [ok |-> TRUE,
                                     frames |-> <<[count |-> n, digits |-> digits,
                                                   text |-> SubSeq(c, j + 1, j + n)]>>
                                                \o rest.frames]

----------------------------------------------------------------------------
(* Payload formats *)

ReturnedPackets == Packets(returned.popped)

\* C7 as stated: the payload of v4_encoder, split on 0x1E, gives one segment
\* per packet, in queue order, each the text of its packet (so no separator
\* leads or trails).
C7_AsStated ==
    (returned.tag = "Ok" /\ returned.enc = "v4")
        => Split(returned.payload, PACKET_SEPARATOR_V4) = TextBytes(ReturnedPackets)

SeparatorFree(packets) ==
    \A i \in 1..Len(packets) : PACKET_SEPARATOR_V4 \notin Range(TextBytes(packets)[i])

\* C7 as amended: the same, provided no packet's text contains the byte 0x1E
\* (the encoder copies the text verbatim and does not escape the separator).
C7_SplitsIntoPacketTexts ==
    (returned.tag = "Ok" /\ returned.enc = "v4" /\ SeparatorFree(ReturnedPackets))
        => Split(returned.payload, PACKET_SEPARATOR_V4) = TextBytes(ReturnedPackets)

\* v4_encoder returned three drained packets, none holding the separator.
C7_Witness ==
    /\ returned.tag = "Ok" /\ returned.enc = "v4" /\ ~returned.waited
    /\ Len(returned.popped) = 3
    /\ SeparatorFree(ReturnedPackets)

\* The binary frame f carries the packet: raw bytes behind the 0x04 marker, or
\* the bytes of its text.
BinFrameCarries(f, packet) ==
    \/ f.type = 1 /\ f.bytes = <<4>> \o packet.body
    \/ f.type = 0 /\ try_into_String(packet).ok
                  /\ f.bytes = Utf8Str(try_into_String(packet).text)

HasBinary(packets) == \E i \in 1..Len(packets) : is_binary(packets[i])

\* C8: a batch of v3_binary_encoder with at least one is_binary() packet is
\* encoded as binary frames only (type byte 0x00 or 0x01), one per packet, in
\* queue order.
C8_AllBinaryFrames ==
    (returned.tag = "Ok" /\ returned.enc = "v3b" /\ HasBinary(ReturnedPackets))
        => LET r == ParseBinFrames(returned.payload)
           IN  /\ r.ok
               /\ Len(r.frames) = Len(ReturnedPackets)
               /\ \A i \in 1..Len(r.frames) :
                      BinFrameCarries(r.frames[i], ReturnedPackets[i])

\* v3_binary_encoder returned a drained batch mixing a message and a binary packet.
C8_Witness ==
    /\ returned.tag = "Ok" /\ returned.enc = "v3b" /\ ~returned.waited
    /\ HasBinary(ReturnedPackets)
    /\ \E i \in 1..Len(ReturnedPackets) : ~is_binary(ReturnedPackets[i])

\* C9: a batch of v3_binary_encoder without binary packet is encoded as string
\* frames, one per packet in queue order: the decimal number of Unicode scalar
\* values of the text, the delimiter, the text.
C9_AllStringFrames ==
    (returned.tag = "Ok" /\ returned.enc = "v3b" /\ ~HasBinary(ReturnedPackets))
        => LET r == ParseStringFrames(Utf8Decode(returned.payload))
           IN  /\ r.ok
               /\ Len(r.frames) = Len(ReturnedPackets)
               /\ \A i \in 1..Len(r.frames) :
                      LET text == try_into_String(ReturnedPackets[i]).text
                      IN  /\ r.frames[i].text = text
                          /\ r.frames[i].count = Len(text)
                          /\ r.frames[i].digits = Decimal(Len(text))

\* v3_binary_encoder returned two messages whose text has fewer characters than bytes.
C9_Witness ==
    /\ returned.tag = "Ok" /\ returned.enc = "v3b" /\ ~returned.waited
    /\ Len(returned.popped) = 2
    /\ \A i \in 1..2 : /\ ReturnedPackets[i].kind = "Message"
                       /\ Len(TextBytes(ReturnedPackets)[i])
                            > Len(try_into_String(ReturnedPackets[i]).text)

\* C10 as stated: v3_bin_packet_encoder writes, for every packet with
\* is_binary() true (Binary and BinaryV3), a frame 0x01, length = raw length + 1,
\* 0xFF, 0x04, raw bytes; and for every other packet a frame 0x00, length =
\* UTF-8 length of the text, 0xFF, text.  Read off the payloads that
\* v3_binary_encoder builds with it.
C10_AsStated ==
    (returned.tag = "Ok" /\ returned.enc = "v3b" /\ HasBinary(ReturnedPackets))
        => LET r == ParseBinFrames(returned.payload)
           IN  /\ r.ok
               /\ Len(r.frames) = Len(ReturnedPackets)
               /\ \A i \in 1..Len(r.frames) :
                      LET packet == ReturnedPackets[i]
                      IN  IF is_binary(packet)
                          THEN /\ r.frames[i].type = 1
                               /\ r.frames[i].bytes = <<4>> \o packet.body
                          ELSE /\ r.frames[i].type = 0
                               /\ r.frames[i].bytes = Utf8Str(try_into_String(packet).text)

----------------------------------------------------------------------------
(* The per-packet frame encoders used standalone, on payloads of many sizes *)

\* Bound: payload sizes 0..MaxSmallLen are tried, besides the sizes around the
\* values whose big-endian bytes change width or hold 0xFF.
MaxSmallLen == 6

BoundaryLens == {253, 254, 255, 510}

FrameLens == (0..MaxSmallLen) \cup BoundaryLens

Filled(n, x) == [i \in 1..n |-> x]

\* Packets of every size: raw bytes 0x07 or 0xFF, one-byte or two-byte characters.
FramePackets ==
    {BinaryV3(Filled(n, x)) : n \in FrameLens, x \in {7, 255}}
    \cup {Msg(Filled(n, c)) : n \in FrameLens, c \in {97, 233}}
    \cup {Binary(Filled(n, 7)) : n \in 0..MaxSmallLen}

\* One packet is at hand, nothing else has happened.
FrameInit ==
    /\ \E packet \in FramePackets :
          /\ queue = <<[id |-> 1, packet |-> packet]>>
          /\ pushed = <<packet>>
    /\ closed = FALSE
    /\ lock = NoOne
    /\ pc = [p \in Pollers |-> "idle"]
    /\ enc = [p \in Pollers |-> "none"]
    /\ data = [p \in Pollers |-> <<>>]
    /\ packet_buffer = [p \in Pollers |-> <<>>]
    /\ has_binary = [p \in Pollers |-> FALSE]
    /\ returned = NoReturn
    /\ batch = [p \in Pollers |-> <<>>]
    /\ delivered = <<>>
    /\ dropped = {}

\* The packet at hand is given to one frame encoder with an empty buffer; the
\* buffer it leaves is the payload.
FrameCall(name, r) ==
    /\ queue # <<>>
    /\ returned' = [by |-> NoOne, tag |-> IF r.ok THEN "Ok" ELSE "ConvErr",
                    payload |-> r.data, enc |-> name,
                    popped |-> <<Head(queue)>>, waited |-> FALSE]
    /\ queue' = Tail(queue)
    /\ delivered' = Append(delivered, Head(queue))
    /\ UNCHANGED <<closed, lock, pc, enc, data, packet_buffer, has_binary, batch,
                   pushed, dropped>>

\* v3_bin_packet_encoder(packet, &mut data)
call_v3_bin_packet_encoder ==
    queue # <<>> /\ FrameCall("bin_packet", v3_bin_packet_encoder(Head(queue).packet, <<>>))

\* v3_string_packet_encoder(packet, &mut data)
call_v3_string_packet_encoder ==
    queue # <<>>
    /\ FrameCall("string_packet", v3_string_packet_encoder(Head(queue).packet, <<>>))

FrameNext ==
    \/ call_v3_bin_packet_encoder
    \/ call_v3_string_packet_encoder

FrameSpec == FrameInit /\ [][FrameNext]_vars

\* The packet just encoded by a standalone frame encoder.
FramedPacket == returned.popped[1].packet

\* C11 as stated: a decoder that reads the type byte, takes the bytes up to
\* the 0xFF separator as the big-endian length and reads that many bytes gets
\* back the raw bytes (0x01 frame, behind the 0x04 marker) or the text (0x00
\* frame) of every packet, whatever the length, 255 included.
C11_AsStated ==
    (returned.enc = "bin_packet" /\ returned.tag = "Ok")
        => LET r == ParseBinFrames(returned.payload)
           IN  /\ r.ok
               /\ Len(r.frames) = 1
               /\ IF r.frames[1].type = 1
                  THEN /\ r.frames[1].bytes # <<>>
                       /\ r.frames[1].bytes[1] = 4
                       /\ Tail(r.frames[1].bytes) = FramedPacket.body
                  ELSE Utf8Decode(r.frames[1].bytes) = try_into_String(FramedPacket).text

\* Bytes that follow the separator of the frame of `packet`.
FramePayloadLen(packet) ==
    IF packet.kind = "BinaryV3" THEN Len(packet.body) + 1
    ELSE Len(Utf8Str(try_into_String(packet).text))

\* The length field of the frame just written: what lies between the type
\* byte and the separator that precedes the payload bytes.
WrittenLengthField ==
    SubSeq(returned.payload, 2, Len(returned.payload) - FramePayloadLen(FramedPacket) - 1)

\* Fewest bytes whose big-endian value can be n.
RECURSIVE MinimalWidth(_)
MinimalWidth(n) == IF n < 256 THEN 1 ELSE 1 + MinimalWidth(n \div 256)

\* C12: the length field is the big-endian length with the leading zero bytes
\* stripped: its value is the length, it has the fewest bytes possible, it is
\* at least one byte long and does not start with 0x00 (5 is 05, 255 is FF,
\* 256 is 01 00).
C12_MinimalLengthField ==
    (returned.enc = "bin_packet" /\ returned.tag = "Ok")
        => LET len == FramePayloadLen(FramedPacket)
               field == WrittenLengthField
           IN  /\ returned.payload[Len(returned.payload) - len] = 255
               /\ Len(field) >= 1
               /\ field[1] # 0
               /\ BigEndianValue(field) = len
               /\ Len(field) = MinimalWidth(len)
               /\ len = 5 => field = <<5>>
               /\ len = 255 => field = <<255>>
               /\ len = 256 => field = <<1, 0>>

\* A frame of length 256 was written, with the two-byte length field 01 00.
C12_Witness ==
    /\ returned.enc = "bin_packet" /\ returned.tag = "Ok"
    /\ FramePayloadLen(FramedPacket) = 256
    /\ WrittenLengthField = <<1, 0>>

----------------------------------------------------------------------------
(* Progress *)

\* The steps of the encoder call of p: they are taken by the task that runs the
\* call, which the runtime keeps scheduling while it can make progress.
EncoderStep(p) ==
    \/ v4_try_recv(p) \/ v4_drain_end(p) \/ v4_recv(p)
    \/ v3b_try_recv(p) \/ v3b_drain_end(p) \/ v3b_recv(p)
    \/ v3s_try_recv(p) \/ v3s_drain_end(p) \/ v3s_recv(p)

\* ENABLED <<EncoderStep(p)>>_vars, read off the guards of the steps: the drain
\* loop always has a next step, the wait completes on a packet or on closure.
Runnable(p) ==
    \/ pc[p] = "drain"
    \/ pc[p] = "wait" /\ (queue # <<>> \/ closed)

\* Weak fairness of the task of p, WF_vars(EncoderStep(p)), with its ENABLED
\* written as Runnable(p): a call that stays runnable is eventually polled.
Scheduled(p) == ([]<>(~Runnable(p))) \/ ([]<><<EncoderStep(p)>>_vars)

\* Spec with a fairly scheduled task per call.  Producers, closing, new calls
\* and cancellation are under no obligation to happen.
FairSpec == Spec /\ \A p \in Pollers : Scheduled(p)

----------------------------------------------------------------------------
(* The blocking path *)

\* C14: when the drain loop of a call ends, the call enters the blocking wait
\* if and only if the loop collected no packet; a call that collected at least
\* one packet returns without waiting, and only a waiting call reports a wait.
C14_WaitIffNothingDrained ==
    /\ [][\A p \in Pollers :
            /\ (pc[p] = "drain" /\ queue = <<>> /\ pc'[p] # "drain")
                 => /\ pc'[p] = "wait" <=> batch[p] = <<>>
                    /\ pc'[p] = "idle" <=> (returned'.by = p /\ ~returned'.waited)
            /\ (pc[p] = "drain" /\ pc'[p] = "wait") => queue = <<>>
            /\ (returned'.by = p /\ returned'.waited) => pc[p] = "wait"]_vars
    /\ [](\A p \in Pollers : pc[p] = "wait" => batch[p] = <<>> /\ data[p] = <<>>)

\* A call waits on the empty queue after an earlier call returned a drained
\* batch without waiting.
C14_Witness ==
    /\ \E p \in Pollers : pc[p] = "wait"
    /\ delivered # <<>>
    /\ queue = <<>>
    /\ ~closed
    /\ dropped = {}

\* C15: a packet pushed after the drain loop found the queue empty and before
\* the wait is polled is not lost: it stays at the head of the queue while the
\* call waits, the wait completes with exactly that packet, and under fair
\* scheduling the call does leave the wait.
C15_PendingPacketWakesWait ==
    /\ [][\A p \in Pollers :
            (pc[p] = "wait" /\ queue # <<>>)
              => /\ pc'[p] = "wait" => (queue' # <<>> /\ Head(queue') = Head(queue))
                 /\ (pc'[p] # "wait" /\ returned'.tag # "Cancelled")
                      => /\ returned'.by = p /\ returned'.waited
                         /\ returned'.tag \in {"Ok", "ConvErr"}
                         /\ returned'.popped = <<Head(queue)>>
                         /\ queue' = Tail(queue)]_vars
    /\ \A p \in Pollers : (pc[p] = "wait" /\ queue # <<>>) ~> (pc[p] = "idle")
    /\ []EnqueueOrderKept

\* A call is in the blocking wait, not yet polled, and a packet has arrived.
C15_Witness == \E p \in Pollers : pc[p] = "wait" /\ queue # <<>> /\ ~closed

\* The payload is one string frame, the one of the packet.
OneStringFrame(payload, packet) ==
    LET r == ParseStringFrames(Utf8Decode(payload))
        text == try_into_String(packet).text
    IN  /\ r.ok
        /\ Len(r.frames) = 1
        /\ r.frames[1].text = text
        /\ r.frames[1].count = Len(text)
        /\ r.frames[1].digits = Decimal(Len(text))

\* The payload is one binary frame, the one of the packet.
OneBinFrame(payload, packet) ==
    LET r == ParseBinFrames(payload)
    IN  /\ r.ok
        /\ Len(r.frames) = 1
        /\ BinFrameCarries(r.frames[1], packet)

\* C16: a call that took the blocking path returns the encoding of exactly one
\* packet: the oldest packet not consumed before, which is the first one pushed
\* since the wait began because the wait begins on an empty queue.  In the v4
\* format the payload is the text alone, without separator.  Every packet
\* pushed after that one is still in the queue when the call returns.
C16_BlockingPathOnePacket ==
    /\ [](returned.waited /\ returned.tag = "Ok"
            => /\ Len(returned.popped) = 1
               /\ Ids(delivered) \cup dropped = 1..returned.popped[1].id
               /\ Ids(queue) = (returned.popped[1].id + 1)..Len(pushed)
               /\ LET packet == ReturnedPackets[1]
                  IN  CASE returned.enc = "v4"
                             -> returned.payload = Utf8Str(try_into_String(packet).text)
                        [] returned.enc = "v3s"
                             -> OneStringFrame(returned.payload, packet)
                        [] returned.enc = "v3b"
                             -> IF is_binary(packet)
                                THEN OneBinFrame(returned.payload, packet)
                                ELSE OneStringFrame(returned.payload, packet))
    /\ [][\A p \in Pollers : (pc[p] # "wait" /\ pc'[p] = "wait") => queue' = <<>>]_vars

\* A call returned from the blocking wait while a later packet was already in
\* the queue.
C16_Witness ==
    /\ returned.waited /\ returned.tag = "Ok"
    /\ queue # <<>>
    /\ returned.popped[1].id >= 2

----------------------------------------------------------------------------
(* v3_string_encoder and the two paths of v3_binary_encoder *)

\* C17: a payload of v3_string_encoder holds no binary frame (no 0xFF length
\* terminator, and it does not read as binary frames); it is one string frame
\* per packet, in queue order, for binary packets too, whether the packets came
\* from the drain loop or from the blocking wait.
C17_StringFramesOnly ==
    (returned.tag = "Ok" /\ returned.enc = "v3s")
        => /\ 255 \notin Range(returned.payload)
           /\ ~ParseBinFrames(returned.payload).ok
           /\ LET r == ParseStringFrames(Utf8Decode(returned.payload))
              IN  /\ r.ok
                  /\ Len(r.frames) = Len(ReturnedPackets)
                  /\ \A i \in 1..Len(r.frames) :
                         LET text == try_into_String(ReturnedPackets[i]).text
                         IN  /\ r.frames[i].text = text
                             /\ r.frames[i].count = Len(text)

\* v3_string_encoder returned a drained batch that holds both binary variants
\* and a message.
C17_Witness ==
    /\ returned.tag = "Ok" /\ returned.enc = "v3s" /\ ~returned.waited
    /\ {ReturnedPackets[i].kind : i \in 1..Len(ReturnedPackets)}
         = {"Binary", "BinaryV3", "Message"}

\* What the batch path of v3_binary_encoder makes of a batch of one packet:
\* has_binary is is_binary() of that packet.
one_packet_batch(packet) == for_packet_in(<<packet>>, is_binary(packet), <<>>)

\* C18: in v3_binary_encoder the packet taken by the blocking wait is encoded
\* byte for byte as the batch path encodes a batch of that one packet, and it
\* fails exactly when the batch path fails: the variant match of the blocking
\* path agrees with is_binary().  (The formula takes both paths: whichever way
\* a single packet was obtained, the result is the same function of it.)
C18_BlockingMatchesBatch ==
    (returned.enc = "v3b" /\ returned.tag \in {"Ok", "ConvErr"}
       /\ (returned.waited \/ Len(ReturnedPackets) = 1))
        => /\ Len(ReturnedPackets) = 1
           /\ (returned.tag = "Ok") <=> one_packet_batch(ReturnedPackets[1]).ok
           /\ returned.tag = "Ok"
                => returned.payload = one_packet_batch(ReturnedPackets[1]).data

\* The blocking wait of v3_binary_encoder returned a Packet::Binary.
C18_Witness ==
    /\ returned.enc = "v3b" /\ returned.waited /\ returned.tag = "Ok"
    /\ ReturnedPackets[1].kind = "Binary"

----------------------------------------------------------------------------
(* Closing the queue *)

\* C19: closing the queue discards nothing.  The close step leaves the queue
\* and every batch as they are; a call returns Error::Aborted only when the
\* closed queue is empty and the call holds no packet; a call that drains the
\* closed queue returns everything that was buffered, in order, so that every
\* packet pushed has then been handed to a call.
C19_CloseKeepsBuffered ==
    /\ [](returned.tag = "Aborted"
            => closed /\ queue = <<>> /\ returned.popped = <<>> /\ returned.payload = <<>>)
    /\ []((returned.tag = "Ok" /\ closed /\ ~returned.waited)
            => /\ queue = <<>>
               /\ Ids(delivered) \cup dropped = 1..Len(pushed)
               /\ \A i \in 1..(Len(returned.popped) - 1) :
                      returned.popped[i + 1].id = returned.popped[i].id + 1
               /\ returned.popped[Len(returned.popped)].id = Len(pushed))
    /\ [][(~closed /\ closed')
            => queue' = queue /\ batch' = batch /\ delivered' = delivered
               /\ dropped' = dropped]_vars
    /\ [][\A p \in Pollers :
            (pc[p] # "idle" /\ closed /\ queue # <<>>) => returned'.tag # "Aborted"]_vars

\* A call on the closed queue returned the packets that were still buffered.
C19_Witness ==
    /\ returned.tag = "Ok" /\ closed /\ ~returned.waited
    /\ Len(returned.popped) >= 2
    /\ delivered = returned.popped

====
